---- MODULE Spec2Model ----
(***************************************************************************)
(* Model of src/src/lib.rs (rust-wasm-canvas): the App that owns a         *)
(* collection of balls, moves them every animation frame and draws them on *)
(* a 2D canvas context, and the requestAnimationFrame loop that drives it. *)
(*                                                                         *)
(* Numbers.  f64 positions and directions are modelled in exact fixed      *)
(* point: a position or direction value v stands for v / Scale.  speed and *)
(* size are plain numbers.  Hence position += direction * speed and        *)
(* position -= direction are exact integer operations here.                *)
(*                                                                         *)
(* Randomness.  rand::thread_rng() is a seeded generator: the seed is a    *)
(* nondeterministic input of each init call, the draws are a function of   *)
(* the seed and of the number of the draw.                                 *)
(*                                                                         *)
(* Drawing surface.  CanvasRenderingContext2d::arc returns a Result; the   *)
(* code unwraps it.  Which arc call (if any) returns Err is an input of    *)
(* every frame.  A panic leaves the App unusable (no unwinding on wasm,    *)
(* the RefCell borrow is never released).                                  *)
(***************************************************************************)
EXTENDS Integers, Sequences, FiniteSets

\* ---------------------------------------------------------------- bounds
Scale == 4          \* fixed-point resolution of positions and directions
RngRes == 4         \* number of distinct outcomes of one random draw
NSeeds == 3         \* number of generator seeds an init call may see
MaxTicks == 6       \* ticks modelled after construction / after an init
MaxInits == 2       \* init calls modelled
MaxWidth == 7       \* largest surface width modelled (window_x)

Half == Scale \div 2

VARIABLES
  window_x,         \* App.window_x
  window_y,         \* App.window_y
  initial_n_balls,  \* App.initial_n_balls
  balls,            \* App.balls
  canvas,           \* pixel size of the canvas element
  calls,            \* calls received by the context in the last render pass
  saved,            \* depth of the context's saved-state stack
  result,           \* outcome of the last on_animation_frame
  panicked,         \* a panic has ended the program
  started,          \* start_animation has taken the App
  pending,          \* frame callbacks registered and not yet fired
  ticks,            \* on_animation_frame calls since construction / init
  heap,             \* Box allocations made so far
  created,          \* the balls as the last init generated them
  frames            \* frame callbacks the window has fired

vars == <<window_x, window_y, initial_n_balls, balls, canvas, calls, saved,
          result, panicked, started, pending, ticks, heap, created, frames>>

\* ------------------------------------------------------- random source
\* rand::thread_rng(): the j-th draw of a generator seeded with seed.
thread_rng(seed, j) == ((seed + 1) * (j + 1) + (j * j) \div 3 + seed * (j \div 11)) % RngRes

\* gen_range(low, high): a value of [low, high), picked by the draw u.
random_number(low, high, u) == low + ((high - low) * u) \div RngRes

\* ------------------------------------------------------------- colours
ball_color(seed, j) ==
  [fn |-> "rgb",
   red |-> random_number(8, 248, thread_rng(seed, j)),
   green |-> random_number(8, 248, thread_rng(seed, j + 1)),
   blue |-> random_number(8, 248, thread_rng(seed, j + 2)),
   opacity |-> random_number(Half, Scale, thread_rng(seed, j + 3))]

bg_color == [fn |-> "rgb", red |-> 0, green |-> 0, blue |-> 0, opacity |-> Scale]

\* ---------------------------------------------------------------- balls
\* Draws are consumed in the order the struct literal evaluates its fields.
generate_ball(wx, wy, seed, j, addr) ==
  [position |-> [x |-> random_number(0, wx * Scale, thread_rng(seed, j)),
                 y |-> random_number(0, wy * Scale, thread_rng(seed, j + 1))],
   direction |-> [x |-> random_number(-Half, Half, thread_rng(seed, j + 2)),
                  y |-> random_number(-Half, Half, thread_rng(seed, j + 3))],
   speed |-> random_number(5, 10, thread_rng(seed, j + 4)),
   size |-> random_number(50, 100, thread_rng(seed, j + 5)),
   is_inverse |-> random_number(-Scale, Scale, thread_rng(seed, j + 6)) > 0,
   color |-> ball_color(seed, j + 7),
   addr |-> addr]

\* App::init, the collection it leaves in self.balls.  self_balls is the
\* collection held before the call: it is replaced, then n balls are pushed.
init_keep_old(self_balls, wx, wy, n, seed, hp) ==
  self_balls \o [i \in 1..n |-> generate_ball(wx, wy, seed, 11 * (i - 1), hp + i)]

init(self_balls, wx, wy, n, seed, hp) ==
  LET fresh == <<>>
  IN fresh \o [i \in 1..n |-> generate_ball(wx, wy, seed, 11 * (i - 1), hp + i)]

\* --------------------------------------------------------------- motion
\* One iteration of the loop of App::moves.
moves_ball_undo_speed(ball, wx, wy) ==
  LET px == ball.position.x + ball.direction.x * ball.speed
      py == ball.position.y + ball.direction.y * ball.speed
      ox == ball.is_inverse /\ (px < 0 \/ px > wx * Scale)
      oy == ball.is_inverse /\ (py < 0 \/ py > wy * Scale)
  IN [ball EXCEPT
        !.position = [x |-> IF ox THEN px - ball.direction.x * ball.speed ELSE px,
                      y |-> IF oy THEN py - ball.direction.y * ball.speed ELSE py],
        !.direction = [x |-> IF ox THEN -ball.direction.x ELSE ball.direction.x,
                       y |-> IF oy THEN -ball.direction.y ELSE ball.direction.y]]

moves_ball_always_reflect(ball, wx, wy) ==
  LET px == ball.position.x + ball.direction.x * ball.speed
      py == ball.position.y + ball.direction.y * ball.speed
      ox == px < 0 \/ px > wx * Scale
      oy == py < 0 \/ py > wy * Scale
  IN [ball EXCEPT
        !.position = [x |-> IF ox THEN px - ball.direction.x ELSE px,
                      y |-> IF oy THEN py - ball.direction.y ELSE py],
        !.direction = [x |-> IF ox THEN -ball.direction.x ELSE ball.direction.x,
                       y |-> IF oy THEN -ball.direction.y ELSE ball.direction.y]]

moves_ball_no_negate(ball, wx, wy) ==
  LET px == ball.position.x + ball.direction.x * ball.speed
      py == ball.position.y + ball.direction.y * ball.speed
      ox == ball.is_inverse /\ (px < 0 \/ px > wx * Scale)
      oy == ball.is_inverse /\ (py < 0 \/ py > wy * Scale)
  IN [ball EXCEPT
        !.position = [x |-> IF ox THEN px - ball.direction.x ELSE px,
                      y |-> IF oy THEN py - ball.direction.y ELSE py]]

moves_ball(ball, wx, wy) ==
  LET px == ball.position.x + ball.direction.x * ball.speed
      py == ball.position.y + ball.direction.y * ball.speed
      ox == ball.is_inverse /\ (px < 0 \/ px > wx * Scale)
      oy == ball.is_inverse /\ (py < 0 \/ py > wy * Scale)
  IN [ball EXCEPT
        !.position = [x |-> IF ox THEN px - ball.direction.x ELSE px,
                      y |-> IF oy THEN py - ball.direction.y ELSE py],
        !.direction = [x |-> IF ox THEN -ball.direction.x ELSE ball.direction.x,
                       y |-> IF oy THEN -ball.direction.y ELSE ball.direction.y]]

\* App::moves: every ball of the collection, in place.
moves_drop_outside(bs, wx, wy) ==
  SelectSeq([i \in DOMAIN bs |-> moves_ball(bs[i], wx, wy)],
            LAMBDA b : b.position.x >= 0 /\ b.position.x <= wx * Scale)

moves(bs, wx, wy) == [i \in DOMAIN bs |-> moves_ball(bs[i], wx, wy)]

\* --------------------------------------------------------------- render
Call(op, args) == [op |-> op, args |-> args]

\* App::render_bg
render_bg(wx, wy) ==
  << Call("set_fill_style", <<bg_color>>),
     Call("fill_rect", <<0, 0, wx * Scale, wy * Scale>>) >>

\* One iteration of the loop of App::render_balls; ok is the Result of arc.
\* unwrap() panics on Err: the calls after it are not made.
render_ball(ball, ok) ==
  << Call("begin_path", <<>>),
     Call("arc", <<ball.position.x, ball.position.y, ball.size, ok>>) >>
  \o (IF ok THEN << Call("set_fill_style", <<ball.color>>), Call("fill", <<>>) >>
            ELSE <<>>)

\* App::render_balls from ball i on; failAt is the ball whose arc fails (0: none).
RECURSIVE render_balls_from(_, _, _)
render_balls_from(bs, i, failAt) ==
  IF i > Len(bs) THEN <<>>
  ELSE IF i = failAt THEN render_ball(bs[i], FALSE)
  ELSE render_ball(bs[i], TRUE) \o render_balls_from(bs, i + 1, failAt)

render_balls(bs, failAt) == render_balls_from(bs, 1, failAt)

\* App::render: the calls the context receives.
render_bg_last(bs, wx, wy, failAt) ==
  << Call("save", <<>>) >> \o render_balls(bs, failAt)
  \o (IF failAt = 0 THEN render_bg(wx, wy) \o << Call("restore", <<>>) >> ELSE <<>>)

render(bs, wx, wy, failAt) ==
  << Call("save", <<>>) >> \o render_bg(wx, wy) \o render_balls(bs, failAt)
  \o (IF failAt = 0 THEN << Call("restore", <<>>) >> ELSE <<>>)

\* Number of calls of operation op in a log.
CountOp(log, op) == Cardinality({k \in DOMAIN log : log[k].op = op})

\* ------------------------------------------------------- frame handler
\* App::on_animation_frame: moves, then render, then true.
on_animation_frame_render_first(bs, wx, wy, failAt) ==
  [balls |-> moves(bs, wx, wy),
   calls |-> render(bs, wx, wy, failAt),
   result |-> IF failAt = 0 THEN "true" ELSE "panic"]

on_animation_frame_rollback(bs, wx, wy, failAt) ==
  [balls |-> IF failAt = 0 THEN moves(bs, wx, wy) ELSE bs,
   calls |-> render(moves(bs, wx, wy), wx, wy, failAt),
   result |-> IF failAt = 0 THEN "true" ELSE "panic"]

on_animation_frame(bs, wx, wy, failAt) ==
  [balls |-> moves(bs, wx, wy),
   calls |-> render(moves(bs, wx, wy), wx, wy, failAt),
   result |-> IF failAt = 0 THEN "true" ELSE "panic"]

\* request_animation_frame: one more callback registered with the window.
request_animation_frame_none(p) == p

request_animation_frame(p) == p + 1

\* ---------------------------------------------------------------- state
\* App::new with window_x and window_y present, the canvas found.
Init ==
  /\ window_x \in (MaxWidth - 1)..MaxWidth
  /\ window_y \in {5}
  /\ initial_n_balls = 10
  /\ balls = <<>>
  /\ canvas = [width |-> 300, height |-> 150]
  /\ calls = <<>>
  /\ saved = 0
  /\ result = "none"
  /\ panicked = FALSE
  /\ started = FALSE
  /\ pending = 0
  /\ ticks = 0
  /\ heap = 0
  /\ created = <<>>
  /\ frames = 0

\* The effect of one on_animation_frame on the App and on the context.
Frame(failAt) ==
  \E r \in {on_animation_frame(balls, window_x, window_y, failAt)} :
     /\ balls' = r.balls
     /\ calls' = r.calls
     /\ saved' = saved + CountOp(r.calls, "save") - CountOp(r.calls, "restore")
     /\ result' = r.result
     /\ panicked' = (r.result = "panic")
     /\ ticks' = ticks + 1

\* JavaScript calls app.init().
InitCall ==
  /\ ~panicked /\ ~started
  /\ heap < MaxInits * initial_n_balls
  /\ \E seed \in 0..(NSeeds - 1) :
       /\ balls' = init(balls, window_x, window_y, initial_n_balls, seed, heap)
       /\ created' = balls'
  /\ canvas' = [width |-> window_x, height |-> window_y]
  /\ heap' = heap + initial_n_balls
  /\ ticks' = 0
  /\ UNCHANGED <<window_x, window_y, initial_n_balls, calls, saved, result,
                 panicked, started, pending, frames>>

\* JavaScript calls app.on_animation_frame().
TickCall ==
  /\ ~panicked /\ ~started
  /\ ticks < MaxTicks
  /\ \E failAt \in 0..Len(balls) : Frame(failAt)
  /\ UNCHANGED <<window_x, window_y, initial_n_balls, canvas, started, pending,
                 heap, created, frames>>

\* JavaScript calls start_animation(app): the closure is built and registered.
StartAnimation ==
  /\ ~panicked /\ ~started
  /\ started' = TRUE
  /\ pending' = request_animation_frame(pending)
  /\ UNCHANGED <<window_x, window_y, initial_n_balls, balls, canvas, calls,
                 saved, result, panicked, ticks, heap, created, frames>>

\* The window fires a registered callback: the closure of start_animation.
\* A panic in on_animation_frame ends the closure before it re-registers.
FrameCallback ==
  /\ ~panicked /\ started
  /\ pending > 0
  /\ ticks < MaxTicks
  /\ \E failAt \in 0..Len(balls) :
       /\ Frame(failAt)
       /\ pending' = IF failAt = 0 THEN request_animation_frame(pending - 1)
                                   ELSE pending - 1
  /\ frames' = frames + 1
  /\ UNCHANGED <<window_x, window_y, initial_n_balls, canvas, started, heap,
                 created>>

Next == InitCall \/ TickCall \/ StartAnimation \/ FrameCallback

Spec == Init /\ [][Next]_vars

FairSpec == Init /\ [][Next]_vars /\ WF_vars(FrameCallback)

\* ------------------------------------------- moves as a function of a ball
\* One ball with arbitrary fields on a surface of MaxWidth x 5, moved
\* repeatedly by App::moves.
MovesBalls ==
  [position : [x : 0..(MaxWidth * Scale), y : {0, 5 * Scale}],
   direction : [x : {-Half, 0, Half, Scale}, y : {-Half, 0}],
   speed : {5, 10},
   size : {50},
   is_inverse : BOOLEAN,
   color : {bg_color},
   addr : {1}]

InitMoves ==
  /\ window_x = MaxWidth
  /\ window_y = 5
  /\ initial_n_balls = 10
  /\ \E b \in MovesBalls : balls = <<b>>
  /\ created = balls
  /\ canvas = [width |-> window_x, height |-> window_y]
  /\ calls = <<>>
  /\ saved = 0
  /\ result = "none"
  /\ panicked = FALSE
  /\ started = FALSE
  /\ pending = 0
  /\ ticks = 0
  /\ heap = 1
  /\ frames = 0

MovesStep ==
  /\ ticks < MaxTicks
  /\ balls' = moves(balls, window_x, window_y)
  /\ ticks' = ticks + 1
  /\ UNCHANGED <<window_x, window_y, initial_n_balls, canvas, calls, saved,
                 result, panicked, started, pending, heap, created, frames>>

NextMoves == MovesStep

SpecMoves == InitMoves /\ [][NextMoves]_vars

\* =============================================================== claims
TickStep == ticks' = ticks + 1

Abs(n) == IF n < 0 THEN -n ELSE n

\* b2 is b after exactly one displacement on each axis, the boundary undo
\* of one direction included.
OneUpdate(b, b2) ==
  /\ b2.position.x - b.position.x \in
       {b.direction.x * b.speed, b.direction.x * b.speed - b.direction.x}
  /\ b2.position.y - b.position.y \in
       {b.direction.y * b.speed, b.direction.y * b.speed - b.direction.y}

ArcsOf(log) == SelectSeq(log, LAMBDA c : c.op = "arc")

ArcFailed(log) == \E k \in DOMAIN log : log[k].op = "arc" /\ ~log[k].args[4]

\* The circles of a render log are those of the balls bs, in order.
FrameShows(log, bs) ==
  /\ Len(ArcsOf(log)) <= Len(bs)
  /\ \A k \in 1..Len(ArcsOf(log)) :
       /\ ArcsOf(log)[k].args[1] = bs[k].position.x
       /\ ArcsOf(log)[k].args[2] = bs[k].position.y
       /\ ArcsOf(log)[k].args[3] = bs[k].size

RenderComplete(log, bs) ==
  /\ Len(ArcsOf(log)) = Len(bs)
  /\ ~ArcFailed(log)
  /\ log[1].op = "save"
  /\ log[Len(log)].op = "restore"

\* --- C1 -----------------------------------------------------------------
\* C1 as stated: every on_animation_frame moves every ball exactly once,
\* then draws one complete frame of the moved balls, and returns true.
C1_Original ==
  [][TickStep =>
       /\ Len(balls') = Len(balls)
       /\ \A i \in DOMAIN balls : OneUpdate(balls[i], balls'[i])
       /\ CountOp(calls', "save") = 1
       /\ FrameShows(calls', balls')
       /\ RenderComplete(calls', balls')
       /\ result' = "true"]_vars

\* C1 amended: every on_animation_frame moves every ball exactly once and
\* then starts one render pass that draws the moved positions; it draws
\* every ball and returns true unless an arc call fails, and then it panics
\* instead of returning.
C1_TickOrder ==
  [][TickStep =>
       /\ Len(balls') = Len(balls)
       /\ \A i \in DOMAIN balls : OneUpdate(balls[i], balls'[i])
       /\ CountOp(calls', "save") = 1
       /\ FrameShows(calls', balls')
       /\ (~ArcFailed(calls') => RenderComplete(calls', balls') /\ result' = "true")
       /\ (ArcFailed(calls') => result' = "panic")]_vars

C1_Witness ==
  /\ ticks > 0 /\ result = "true" /\ Len(balls) = 10
  /\ CountOp(calls, "arc") = 10
  /\ \E i \in DOMAIN balls : balls[i].position # created[i].position

\* --- C2 -----------------------------------------------------------------
\* The position and direction of one axis after a tick of an is_inverse ball.
AxisLaw(p, d, s, extent, p2, d2) ==
  LET p1 == p + d * s
  IN IF p1 < 0 \/ p1 > extent
       THEN p2 = p1 - d /\ d2 = -d
       ELSE p2 = p1 /\ d2 = d

\* C2: a tick of an is_inverse ball adds direction*speed on each axis, and
\* on an axis where the result is < 0 or > extent it then subtracts
\* direction and negates direction; otherwise (0 and extent included) it
\* leaves both as they are.
C2_Reflection ==
  [][TickStep =>
       \A i \in DOMAIN balls : balls[i].is_inverse =>
         /\ AxisLaw(balls[i].position.x, balls[i].direction.x, balls[i].speed,
                    window_x * Scale, balls'[i].position.x, balls'[i].direction.x)
         /\ AxisLaw(balls[i].position.y, balls[i].direction.y, balls[i].speed,
                    window_y * Scale, balls'[i].position.y, balls'[i].direction.y)]_vars

\* direction.x = 0.5, speed = 10, position.x = width - 2: after one tick
\* direction.x = -0.5 and position.x = width + 2.5.
C2_Witness ==
  /\ ticks = 1 /\ Len(created) = 1 /\ created[1].is_inverse
  /\ 2 * created[1].direction.x = Scale
  /\ created[1].speed = 10
  /\ created[1].position.x = (window_x - 2) * Scale
  /\ 2 * balls[1].direction.x = -Scale
  /\ 2 * balls[1].position.x = (2 * window_x + 5) * Scale

\* --- C3 -----------------------------------------------------------------
\* C3: a ball with is_inverse = false is, after n ticks, at its initial
\* position plus n * direction * speed, with its direction unchanged.
C3_Drift ==
  \A i \in DOMAIN balls :
    (Len(created) = Len(balls) /\ ~created[i].is_inverse) =>
      /\ balls[i].position.x =
           created[i].position.x + ticks * created[i].direction.x * created[i].speed
      /\ balls[i].position.y =
           created[i].position.y + ticks * created[i].direction.y * created[i].speed
      /\ balls[i].direction = created[i].direction

\* direction (1,0), speed 5, position.x = width - 1: width + 4 after a tick.
C3_Witness ==
  /\ ticks = 1 /\ Len(created) = 1 /\ ~created[1].is_inverse
  /\ created[1].direction = [x |-> Scale, y |-> 0]
  /\ created[1].speed = 5
  /\ created[1].position.x = (window_x - 1) * Scale
  /\ balls[1].position.x = (window_x + 4) * Scale

\* --- C4 -----------------------------------------------------------------
\* C4: every init leaves exactly initial_n_balls (10) balls, each allocated
\* by this call, none of them a ball of the collection held before.
C4_InitResets ==
  [][heap' # heap =>
       /\ initial_n_balls = 10
       /\ Len(balls') = initial_n_balls
       /\ \A i \in DOMAIN balls' :
            /\ balls'[i].addr > heap /\ balls'[i].addr <= heap'
            /\ \A j \in DOMAIN balls : balls[j].addr # balls'[i].addr
            /\ \A j \in DOMAIN balls' : balls'[j].addr = balls'[i].addr => j = i]_vars

\* A second init, made after a frame drew the ten balls of the first.
C4_Witness ==
  /\ heap = 2 * initial_n_balls /\ ticks = 0 /\ Len(balls) = 10
  /\ CountOp(calls, "arc") = 10

\* --- C5 -----------------------------------------------------------------
\* The k-th call of a complete render pass of the balls bs.
ExpectedCall(bs, wx, wy, k) ==
  IF k = 1 THEN Call("save", <<>>)
  ELSE IF k = 2 THEN Call("set_fill_style", <<bg_color>>)
  ELSE IF k = 3 THEN Call("fill_rect", <<0, 0, wx * Scale, wy * Scale>>)
  ELSE IF k = 4 + 4 * Len(bs) THEN Call("restore", <<>>)
  ELSE LET b == bs[(k - 4) \div 4 + 1]
           j == (k - 4) % 4
       IN IF j = 0 THEN Call("begin_path", <<>>)
          ELSE IF j = 1 THEN Call("arc", <<b.position.x, b.position.y, b.size, TRUE>>)
          ELSE IF j = 2 THEN Call("set_fill_style", <<b.color>>)
          ELSE Call("fill", <<>>)

C6_FailurePropagates ==
  /\ [][(TickStep /\ ArcFailed(calls')) =>
          /\ result' = "panic" /\ panicked'
          /\ Len(balls') = Len(balls)
          /\ \A i \in DOMAIN balls :
               /\ OneUpdate(balls[i], balls'[i])
               /\ Abs(balls'[i].direction.x) = Abs(balls[i].direction.x)
               /\ Abs(balls'[i].direction.y) = Abs(balls[i].direction.y)
          /\ Cardinality({k \in DOMAIN calls' :
                            calls'[k].op = "arc" /\ ~calls'[k].args[4]}) = 1
          /\ calls'[Len(calls')].op = "arc"
          /\ pending' = 0]_vars
  /\ [][panicked => UNCHANGED vars]_vars

C6_Witness ==
  /\ panicked /\ result = "panic" /\ ticks > 0 /\ Len(balls) = 10
  /\ ArcFailed(calls)
  /\ \E i \in DOMAIN balls : balls[i].position # created[i].position

\* --- C7 -----------------------------------------------------------------
\* C7: whenever render has exited, every save has had its restore.
C7_SaveRestoreBalanced == saved = 0

\* --- C8 -----------------------------------------------------------------
\* C8: a tick changes only position and direction: speed, size, is_inverse
\* and color of every ball stay as created, the collection keeps its balls
\* and their order, and window_x, window_y and initial_n_balls stay.
C8_TickFrame ==
  /\ [][TickStep =>
          /\ Len(balls') = Len(balls)
          /\ \A i \in DOMAIN balls :
               /\ balls'[i].speed = balls[i].speed
               /\ balls'[i].size = balls[i].size
               /\ balls'[i].is_inverse = balls[i].is_inverse
               /\ balls'[i].color = balls[i].color
               /\ balls'[i].addr = balls[i].addr
          /\ window_x' = window_x /\ window_y' = window_y
          /\ initial_n_balls' = initial_n_balls]_vars
  /\ [](/\ Len(balls) = Len(created)
        /\ \A i \in DOMAIN balls :
             /\ balls[i].speed = created[i].speed
             /\ balls[i].size = created[i].size
             /\ balls[i].is_inverse = created[i].is_inverse
             /\ balls[i].color = created[i].color
             /\ balls[i].addr = created[i].addr)

C8_Witness ==
  /\ ticks >= 2 /\ Len(balls) = 10
  /\ \E i \in DOMAIN balls :
       /\ balls[i].position # created[i].position
       /\ balls[i].direction # created[i].direction

AxisBounded(p, d, d0, s, extent) ==
  /\ p >= -(Abs(d0) * (s - 1))
  /\ p <= extent + Abs(d0) * (s - 1)
  /\ Abs(d) = Abs(d0)

C10_NeverEscapes ==
  \A i \in DOMAIN balls :
    (/\ Len(created) = Len(balls) /\ created[i].is_inverse
     /\ created[i].position.x >= 0 /\ created[i].position.x <= window_x * Scale
     /\ created[i].position.y >= 0 /\ created[i].position.y <= window_y * Scale)
    => /\ AxisBounded(balls[i].position.x, balls[i].direction.x,
                      created[i].direction.x, created[i].speed, window_x * Scale)
       /\ AxisBounded(balls[i].position.y, balls[i].direction.y,
                      created[i].direction.y, created[i].speed, window_y * Scale)

\* An is_inverse ball generated by init that has crossed an edge and turned.
C10_Witness ==
  /\ heap > 0 /\ Len(balls) = 10
  /\ \E i \in DOMAIN balls :
       /\ created[i].is_inverse
       /\ \/ /\ (balls[i].position.x > window_x * Scale \/ balls[i].position.x < 0)
             /\ balls[i].direction.x = -created[i].direction.x
             /\ balls[i].direction.x # 0
          \/ /\ (balls[i].position.y > window_y * Scale \/ balls[i].position.y < 0)
             /\ balls[i].direction.y = -created[i].direction.y
             /\ balls[i].direction.y # 0
====
